---- MODULE Spec2Model ----
(***************************************************************************)
(* Model of the news pipeline of diggy_aws_back:                           *)
(*   api_clients.py  fetch_top_news, debug_groq_request, summarize_text,   *)
(*                   rate_credibility, summarize_all_articles,             *)
(*                   generate_followup_questions,                          *)
(*                   extract_perspectives_from_articles                    *)
(*   processing.py   extract_article, run_full_pipeline                    *)
(*                                                                         *)
(* Python strings are sequences of one-character strings, so that strip(), *)
(* slicing, find() and the digit filter are computed and not assumed.      *)
(* The search provider, the page download and the Groq endpoint are the    *)
(* environment: every call draws its outcome from the set of outcomes the  *)
(* client code distinguishes.                                              *)
(***************************************************************************)
EXTENDS Integers, Sequences, FiniteSets, TLC

\* ------------------------------------------------------------------ bounds
\* num_results passed by run_full_pipeline (15 in the source), scaled down
NumResults == 5
\* number of distinct source names the provider can report
NumSources == 5
\* longest model response text enumerated for the pure text functions
MaxRawLen == 4
\* most calls (page downloads, Groq requests) the environment lets fail in
\* one run while the key is set; without the key every Groq call fails
MaxFaults == 2

\* ------------------------------------------------------- program constants
\* processing.py:200  len(processed_articles) < 4
FeaturedCap == 4
\* api_clients.py:197  n_questions=5
NQuestions == 5

\* ------------------------------------------------------------ Python values
\* None, for values that are otherwise strings (sequences of characters)
None == <<"None">>

\* Python truthiness of an optional string: None and "" are falsy
Falsy(s) == s = None \/ s = <<>>

Whitespace == {" ", "\n"}

Digits == {"0", "1", "2", "3", "4", "5", "6", "7", "8", "9"}

RECURSIVE LStrip(_)
LStrip(s) == IF s # <<>> /\ Head(s) \in Whitespace THEN LStrip(Tail(s)) ELSE s

RECURSIVE RStrip(_)
RStrip(s) ==
    IF s # <<>> /\ s[Len(s)] \in Whitespace
    THEN RStrip(SubSeq(s, 1, Len(s) - 1))
    ELSE s

\* str.strip()
Strip(s) == RStrip(LStrip(s))

\* mutant of DigitsOf: the digit filter is forgotten
DigitsOf_all(s) == s

\* "".join(ch for ch in raw if ch.isdigit())
RECURSIVE DigitsOf(_)
DigitsOf(s) ==
    IF s = <<>> THEN <<>>
    ELSE IF Head(s) \in Digits THEN <<Head(s)>> \o DigitsOf(Tail(s))
    ELSE DigitsOf(Tail(s))

\* mutant of Take: the slice is forgotten
Take_all(l, n) == l

\* l[:n] for n >= 0
Take(l, n) == SubSeq(l, 1, IF n < Len(l) THEN n ELSE Len(l))

\* ------------------------------------------------------ Groq transport layer
\* What one POST to the Groq endpoint can come back with, as far as the
\* client code tells the cases apart:
\*   neterr       requests.post raised
\*   non200       status code other than 200
\*   badjson      r.json() raised
\*   emptyjson    a falsy JSON body ({}), returned but "not resp"
\*   nochoices    a JSON body without choices[0].message.content
\*   nullcontent  content is null
\*   content      content is the string .content
HttpFailureKinds ==
    {"neterr", "non200", "badjson", "emptyjson", "nochoices", "nullcontent"}

HttpOutcomes(contents) ==
    {[kind |-> k, content |-> None] : k \in HttpFailureKinds}
        \cup {[kind |-> "content", content |-> c] : c \in contents}

RespNone == [kind |-> "None", content |-> None]

\* debug_groq_request: None without a key, on a network error, on a non-200
\* status and on a body that is not JSON; the parsed body otherwise
debug_groq_request(key, h) ==
    IF ~key THEN RespNone
    ELSE IF h.kind \in {"neterr", "non200", "badjson"} THEN RespNone
    ELSE h

\* "not resp"
NotResp(resp) == resp.kind \in {"None", "emptyjson"}

\* resp["choices"][0]["message"]["content"] is a string (no exception when
\* the caller reads it and calls a str method on it)
HasContent(resp) == resp.kind = "content"

\* a text-generation call failed: no key, transport error, non-success
\* status, or a body from which no content string can be read
GroqFailed(key, h) == ~key \/ h.kind # "content"

\* summarize_text: the stripped content, None on every failure
summarize_text(key, h) ==
    IF ~key THEN None
    ELSE LET resp == debug_groq_request(key, h) IN
         IF NotResp(resp) THEN None
         ELSE IF HasContent(resp) THEN Strip(resp.content)
         ELSE None

NA == <<"N", "/", "A">>

\* mutant of rate_credibility: None on a failure, as summarize_text does
rate_credibility_none(key, h) ==
    IF GroqFailed(key, h) \/ h.kind = "emptyjson" THEN None
    ELSE LET raw == Strip(h.content)
             digits == DigitsOf(raw)
         IN  IF digits # <<>> THEN digits ELSE raw

\* rate_credibility: digits of the stripped content, the stripped content
\* itself when it has no digit, "N/A" on every failure
rate_credibility(key, h) ==
    IF ~key THEN NA
    ELSE LET resp == debug_groq_request(key, h) IN
         IF NotResp(resp) THEN NA
         ELSE IF HasContent(resp)
              THEN LET raw == Strip(resp.content)
                       digits == DigitsOf(raw)
                   IN  IF digits # <<>> THEN digits ELSE raw
              ELSE NA

\* summarize_all_articles: None for an empty list and on every failure
summarize_all_articles(key, arts, h) ==
    IF arts = <<>> THEN None
    ELSE LET resp == debug_groq_request(key, h) IN
         IF NotResp(resp) THEN None
         ELSE IF HasContent(resp) THEN Strip(resp.content)
         ELSE None

\* ------------------------------------------------------------ extract_article
\* Outcomes of trafilatura: fetch_url raised, nothing downloaded, downloaded
\* but no main text, text
DownloadOutcomes ==
    {[kind |-> k, text |-> None] : k \in {"exception", "nodownload", "notext"}}
        \cup {[kind |-> "text", text |-> <<"t">>]}

extract_article(d) == IF d.kind = "text" THEN d.text ELSE None

\* ------------------------------------------------ generate_followup_questions
\* The characters of q.strip("...") at api_clients.py:223: the three
\* characters U+00E2, U+20AC, U+00A2 (written by their code points), '-',
\* the ten digits, '.' and ' '
MarkerChars == {"U+00E2", "U+20AC", "U+00A2", "-", ".", " "} \cup Digits

RECURSIVE LStripChars(_, _)
LStripChars(s, cs) ==
    IF s # <<>> /\ Head(s) \in cs THEN LStripChars(Tail(s), cs) ELSE s

RECURSIVE RStripChars(_, _)
RStripChars(s, cs) ==
    IF s # <<>> /\ s[Len(s)] \in cs
    THEN RStripChars(SubSeq(s, 1, Len(s) - 1), cs)
    ELSE s

\* str.strip(chars)
StripChars(s, cs) == RStripChars(LStripChars(s, cs), cs)

\* index of the first occurrence of c in s, 0 when there is none
RECURSIVE Find(_, _)
Find(s, c) ==
    IF s = <<>> THEN 0
    ELSE IF Head(s) = c THEN 1
    ELSE LET r == Find(Tail(s), c) IN IF r = 0 THEN 0 ELSE r + 1

\* index of the last occurrence of c in s, 0 when there is none
RECURSIVE RFind(_, _)
RFind(s, c) ==
    IF s = <<>> THEN 0
    ELSE IF s[Len(s)] = c THEN Len(s)
    ELSE RFind(SubSeq(s, 1, Len(s) - 1), c)

\* text.split("\n"): the pieces between newlines, empty pieces included
RECURSIVE SplitLines(_)
SplitLines(s) ==
    LET k == Find(s, "\n") IN
    IF k = 0 THEN <<s>>
    ELSE <<SubSeq(s, 1, k - 1)>> \o SplitLines(SubSeq(s, k + 1, Len(s)))

\* [q.strip(chars) for q in lines if q.strip()]
RECURSIVE StripMarkers(_)
StripMarkers(lines) ==
    IF lines = <<>> THEN <<>>
    ELSE IF Strip(Head(lines)) # <<>>
         THEN <<StripChars(Head(lines), MarkerChars)>> \o StripMarkers(Tail(lines))
         ELSE StripMarkers(Tail(lines))

\* generate_followup_questions: [] for a falsy summary (no request) and on
\* every failure, else the first n stripped non-blank lines
generate_followup_questions(key, combined_summary, n, h) ==
    IF Falsy(combined_summary) THEN <<>>
    ELSE LET resp == debug_groq_request(key, h) IN
         IF NotResp(resp) THEN <<>>
         ELSE IF HasContent(resp)
              THEN Take(StripMarkers(SplitLines(resp.content)), n)
              ELSE <<>>

\* ------------------------------------------------------------------ json.loads
\* JSON over the characters the model draws responses from: numbers, the
\* empty object, the empty array and arrays of one value (no ',', ':' or '"'
\* in the alphabet), with whitespace allowed between tokens.
JsonErr == [t |-> "err", elems |-> <<>>]

JsonNumber(s) ==
    /\ s # <<>>
    /\ \A k \in 1..Len(s) : s[k] \in Digits
    /\ (Len(s) = 1 \/ s[1] # "0")

RECURSIVE json_loads(_)
json_loads(s) ==
    LET w == Strip(s) IN
    IF w = <<>> THEN JsonErr
    ELSE IF JsonNumber(w) THEN [t |-> "num", elems |-> <<>>]
    ELSE IF Len(w) >= 2 /\ w[1] = "{" /\ w[Len(w)] = "}"
         THEN IF Strip(SubSeq(w, 2, Len(w) - 1)) = <<>>
              THEN [t |-> "obj", elems |-> <<>>]
              ELSE JsonErr
    ELSE IF Len(w) >= 2 /\ w[1] = "[" /\ w[Len(w)] = "]"
         THEN LET inner == Strip(SubSeq(w, 2, Len(w) - 1)) IN
              IF inner = <<>> THEN [t |-> "arr", elems |-> <<>>]
              ELSE LET v == json_loads(inner) IN
                   IF v.t = "err" THEN JsonErr
                   ELSE [t |-> "arr", elems |-> <<v>>]
    ELSE JsonErr

\* ----------------------------------------- extract_perspectives_from_articles
Analysis == <<"A", "n", "a", "l", "y", "s", "i", "s">>

\* mutant of all_urls: only the first article is attributed
all_urls_first(arts) ==
    IF arts = <<>> \/ Falsy(Head(arts).url) THEN <<>> ELSE <<Head(arts).url>>

\* [a.get("url") for a in articles if a.get("url")]
RECURSIVE all_urls(_)
all_urls(arts) ==
    IF arts = <<>> THEN <<>>
    ELSE IF Falsy(Head(arts).url) THEN all_urls(Tail(arts))
    ELSE <<Head(arts).url>> \o all_urls(Tail(arts))

FallbackRecord(raw, arts) ==
    [perspective |-> Analysis, summary |-> raw,
     interesting_fact |-> <<>>, articles |-> all_urls(arts)]

\* the record built from a parsed object; the objects of the modelled JSON
\* have no members, so every p.get(...) gives its default
ParsedRecord ==
    [perspective |-> <<>>, summary |-> <<>>,
     interesting_fact |-> <<>>, articles |-> <<>>]

\* raw[start:end+1] when both brackets are found, raw otherwise
BracketSpan(raw) ==
    LET start == Find(raw, "[")
        end == RFind(raw, "]")
    IN  IF start # 0 /\ end # 0 THEN SubSeq(raw, start, end) ELSE raw

\* the inner try block, api_clients.py:418-433: iterate the parsed value and
\* call .get on each item; any exception gives the fallback record
PerspectivesOfRaw(raw0, arts) ==
    LET raw == BracketSpan(raw0)
        parsed == json_loads(raw)
    IN  IF parsed.t = "arr"
        THEN IF \A k \in 1..Len(parsed.elems) : parsed.elems[k].t = "obj"
             THEN [k \in 1..Len(parsed.elems) |-> ParsedRecord]
             ELSE <<FallbackRecord(raw, arts)>>
        ELSE IF parsed.t = "obj" THEN <<>>
        ELSE <<FallbackRecord(raw, arts)>>

extract_perspectives_from_articles(key, arts, h) ==
    IF ~key \/ arts = <<>> THEN <<>>
    ELSE LET resp == debug_groq_request(key, h) IN
         IF NotResp(resp) THEN <<>>
         ELSE IF HasContent(resp)
              THEN PerspectivesOfRaw(Strip(resp.content), arts)
              ELSE <<>>

\* ------------------------------------------------- the other text functions
\* extract_keywords: the stripped content, None on every failure
extract_keywords(key, h) ==
    IF ~key THEN None
    ELSE LET resp == debug_groq_request(key, h) IN
         IF NotResp(resp) THEN None
         ELSE IF HasContent(resp) THEN Strip(resp.content)
         ELSE None

LowerCase == <<"a", "n">>
UpperCase == <<"A", "N">>

\* str.upper, on the letters the responses are written with
UpperChar(c) ==
    IF \E k \in 1..Len(LowerCase) : LowerCase[k] = c
    THEN UpperCase[CHOOSE k \in 1..Len(LowerCase) : LowerCase[k] = c]
    ELSE c

Upper(s) == [k \in 1..Len(s) |-> UpperChar(s[k])]

\* extract_event_location: the stripped content, None when it reads N/A
\* in any case and on every failure
extract_event_location(key, h) ==
    IF ~key THEN None
    ELSE LET resp == debug_groq_request(key, h) IN
         IF NotResp(resp) THEN None
         ELSE IF HasContent(resp)
              THEN LET location == Strip(resp.content)
                   IN  IF Upper(location) # NA THEN location ELSE None
              ELSE None

\* "Error: GROQ_API_KEY not set."
ImageKeyNotSet ==
    <<"E", "r", "r", "o", "r", ":", " ", "G", "R", "O", "Q", "_",
      "A", "P", "I", "_", "K", "E", "Y", " ", "n", "o", "t", " ",
      "s", "e", "t", ".">>

\* describe_image: the stripped content; the literal above without a key,
\* None on every other failure
describe_image(key, h) ==
    IF ~key THEN ImageKeyNotSet
    ELSE LET resp == debug_groq_request(key, h) IN
         IF NotResp(resp) THEN None
         ELSE IF HasContent(resp) THEN Strip(resp.content)
         ELSE None

\* "N/A (GROQ key not set)"
AnswerKeyNotSet ==
    <<"N", "/", "A", " ", "(", "G", "R", "O", "Q", " ", "k", "e",
      "y", " ", "n", "o", "t", " ", "s", "e", "t", ")">>

\* "Error: Could not generate answer."
AnswerNotGenerated ==
    <<"E", "r", "r", "o", "r", ":", " ", "C", "o", "u", "l", "d",
      " ", "n", "o", "t", " ", "g", "e", "n", "e", "r", "a", "t",
      "e", " ", "a", "n", "s", "w", "e", "r", ".">>

\* "Error: Failed to parse answer."
AnswerNotParsed ==
    <<"E", "r", "r", "o", "r", ":", " ", "F", "a", "i", "l", "e",
      "d", " ", "t", "o", " ", "p", "a", "r", "s", "e", " ", "a",
      "n", "s", "w", "e", "r", ".">>

\* mutant of answer_followup: a failed request gives None, as it does in
\* the other text functions
answer_followup_none(key, question, context, h) ==
    IF ~key THEN AnswerKeyNotSet
    ELSE LET resp == debug_groq_request(key, h) IN
         IF NotResp(resp) THEN None
         ELSE IF HasContent(resp) THEN Strip(resp.content)
         ELSE AnswerNotParsed

\* answer_followup: the stripped content, a literal on every failure. The
\* question and the context go into the prompt only.
answer_followup(key, question, context, h) ==
    IF ~key THEN AnswerKeyNotSet
    ELSE LET resp == debug_groq_request(key, h) IN
         IF NotResp(resp) THEN AnswerNotGenerated
         ELSE IF HasContent(resp) THEN Strip(resp.content)
         ELSE AnswerNotParsed

\* ---------------------------------------------------------------- the state
VARIABLES
    GROQ_API_KEY,           \* whether the module-level key is non-empty
    pc,                     \* position of the run
    requests,               \* fetch_top_news: the searches issued, in order
    results,                \* fetch_top_news: the last search response
    articles,               \* fetch_top_news: the returned list
    error,                  \* fetch_top_news: the returned error
    idx,                    \* position of the for loop in articles
    processed_articles,     \* the featured list
    perspectives,           \* the perspective pool
    processed_sources,      \* the set of source names already accepted
    calls,                  \* history: the collaborator calls of the run
    posts,                  \* history: number of POSTs to the Groq endpoint
    combined_summary,
    extracted_perspectives,
    ret,                    \* the returned tuple
    arg,                    \* input of a text function applied on its own
    out                     \* its result

vars ==
    <<GROQ_API_KEY, pc, requests, results, articles, error, idx,
      processed_articles, perspectives, processed_sources, calls, posts,
      combined_summary, extracted_perspectives, ret, arg, out>>

\* error values are plain strings; NoError is Python's None
NoError == "<None>"

\* "if error:" at processing.py:170
TruthyError(e) == e # NoError /\ e # ""

\* mutant of NoArticles: the check for an empty list is forgotten
NoArticles_never(arts) == FALSE

\* "if not articles:" at processing.py:173
NoArticles(arts) == arts = <<>>

\* mutant of NotProcessed: the check for no featured article is forgotten
NotProcessed_never(arts) == FALSE

\* "if not processed_articles:" at processing.py:224
NotProcessed(arts) == arts = <<>>

\* the URL of the candidate at position k of the provider's list: every
\* candidate has its own URL
Url(k) == <<"u", ToString(k)>>

Max(S) == CHOOSE x \in S : \A y \in S : y <= x

\* Source names are interchangeable, so the provider's lists are enumerated
\* up to renaming: a list uses the names 1, 2, ... in order of first
\* appearance.
IsCanonical(f, n) ==
    \A k \in 1..n : f[k] <= 1 + Max({0} \cup {f[j] : j \in 1..(k - 1)})

ProviderLists ==
    UNION {
        {[k \in 1..n |-> [source |-> f[k], link |-> Url(k)]] :
            f \in {g \in [1..n -> 1..NumSources] : IsCanonical(g, n)}} :
        n \in 1..(NumResults + 1)}

\* What search.get_dict() can give: a non-empty news_results list, no (or
\* an empty) news_results and no error key, an error key, or an exception
SearchResponses ==
    {[kind |-> "results", news |-> l, msg |-> ""] : l \in ProviderLists}
        \cup {[kind |-> "empty", news |-> <<>>, msg |-> "No news_results found."]}
        \cup {[kind |-> "error", news |-> <<>>, msg |-> "Invalid API key."]}
        \cup {[kind |-> "raise", news |-> <<>>, msg |-> m] : m \in {"timeout", ""}}

NoResults == [kind |-> "none", news |-> <<>>, msg |-> ""]

\* model response texts the run draws from
SummaryContents == {<<"s", " ">>}
CredContents == {<<" ", "8", "5">>}
CombinedContents == {<<"c", "\n">>}
PerspContents == {<<"x">>}
FollowContents == {<<"1", ".", " ", "q", "\n", "-", "r">>}

NoneList == [isNone |-> TRUE, items |-> <<>>]
PyList(l) == [isNone |-> FALSE, items |-> l]

NoRet ==
    [articles |-> NoneList, summary |-> None, followups |-> <<>>,
     perspectives |-> <<>>, error |-> "<running>"]

\* return None, None, [], [], e
ErrorReturn(e) ==
    [articles |-> NoneList, summary |-> None, followups |-> <<>>,
     perspectives |-> <<>>, error |-> e]

\* One entry of the call history: the function, the candidate it was called
\* for (0 after the loop), the string it returned (ListResult for the two
\* functions that return lists) and whether the call behind it failed
ListResult == <<"list">>
Call(fn, k, res, failed) == [fn |-> fn, idx |-> k, res |-> res, failed |-> failed]

PostCount(key) == IF key THEN 1 ELSE 0

InitRun ==
    /\ requests = <<>>
    /\ results = NoResults
    /\ articles = <<>>
    /\ error = NoError
    /\ idx = 0
    /\ processed_articles = <<>>
    /\ perspectives = <<>>
    /\ processed_sources = {}
    /\ calls = <<>>
    /\ posts = 0
    /\ combined_summary = None
    /\ extracted_perspectives = <<>>
    /\ ret = NoRet

Init ==
    /\ GROQ_API_KEY \in BOOLEAN
    /\ pc = "fetch_top_news"
    /\ InitRun
    /\ arg = <<>>
    /\ out = <<>>

\* results["news_results"][:num_results], None
FetchSuccess(r, num_results) ==
    /\ articles' = Take(r.news, num_results)
    /\ error' = NoError
    /\ pc' = "fetched"

\* [], message
FetchFailure(m) ==
    /\ articles' = <<>>
    /\ error' = m
    /\ pc' = "fetched"

Search(q, r) == [q |-> q, kind |-> r.kind]

\* fetch_top_news, first search: the query restricted to the trusted sites
SearchRestricted ==
    /\ pc = "fetch_top_news"
    /\ \E r \in SearchResponses :
          /\ requests' = Append(requests, Search("refined_query", r))
          /\ results' = r
          /\ IF r.kind = "results" THEN FetchSuccess(r, NumResults)
             ELSE IF r.kind = "raise" THEN FetchFailure(r.msg)
             ELSE /\ pc' = "fallback"
                  /\ UNCHANGED <<articles, error>>
    /\ UNCHANGED <<GROQ_API_KEY, idx, processed_articles, perspectives,
                   processed_sources, calls, posts,
                   combined_summary, extracted_perspectives, ret, arg, out>>

\* fetch_top_news, fallback search: the original query
SearchFallback ==
    /\ pc = "fallback"
    /\ \E r \in SearchResponses :
          /\ requests' = Append(requests, Search("query", r))
          /\ results' = r
          /\ IF r.kind = "results" THEN FetchSuccess(r, NumResults)
             ELSE FetchFailure(r.msg)
    /\ UNCHANGED <<GROQ_API_KEY, idx, processed_articles, perspectives,
                   processed_sources, calls, posts,
                   combined_summary, extracted_perspectives, ret, arg, out>>

\* run_full_pipeline after fetch_top_news returned: the two early returns,
\* else the loop starts. The searches belong to the call of fetch_top_news
\* that has ended, so their record ends with it.
CheckFetched ==
    /\ pc = "fetched"
    /\ IF TruthyError(error)
       THEN /\ ret' = ErrorReturn(error)
            /\ pc' = "done"
            /\ UNCHANGED idx
       ELSE IF NoArticles(articles)
       THEN /\ ret' = ErrorReturn("No articles found.")
            /\ pc' = "done"
            /\ UNCHANGED idx
       ELSE /\ pc' = "loop"
            /\ idx' = 1
            /\ UNCHANGED ret
    /\ requests' = <<>>
    /\ results' = NoResults
    /\ UNCHANGED <<GROQ_API_KEY, articles, error, processed_articles,
                   perspectives, processed_sources, calls, posts,
                   combined_summary, extracted_perspectives, arg, out>>

InLoop == pc = "loop" /\ idx <= Len(articles)

\* mutant of SourceName: candidates are told apart by their URL
SourceName_link(art) == art.link

\* source = art.get("source", {}).get("name", ...)
SourceName(art) == art.source

\* mutant of AddSource: the accepted source is not recorded
AddSource_forget(seen, source) == seen

\* processed_sources.add(source)
AddSource(seen, source) == seen \cup {source}

\* mutant of Continue: "break", the loop ends at the first skipped candidate
Continue_break(i, n) == n + 1

\* "continue": the loop goes on with the candidate after position i of n
Continue(i, n) == i + 1

\* the environment's faults so far in this run: failed downloads, and
\* failed Groq requests when there is a key to send them with
FaultsUsed ==
    Len(SelectSeq(calls, LAMBDA c :
            c.failed /\ (c.fn = "extract_article" \/ GROQ_API_KEY)))

\* the outcomes the environment may still produce for a download or for a
\* Groq request
Downloads ==
    {d \in DownloadOutcomes : d.kind # "text" => FaultsUsed < MaxFaults}
Https(contents) ==
    {h \in HttpOutcomes(contents) :
        (GROQ_API_KEY /\ h.kind # "content") => FaultsUsed < MaxFaults}

\* what the collaborators can return to the loop, over these outcomes, each
\* with whether the call failed
ExtractResults ==
    {<<extract_article(d), d.kind # "text">> : d \in Downloads}
SummaryResults(key) ==
    {<<summarize_text(key, h), GroqFailed(key, h)>> :
        h \in Https(SummaryContents)}

\* if source in processed_sources: continue
SkipDuplicate ==
    /\ InLoop
    /\ SourceName(articles[idx]) \in processed_sources
    /\ idx' = Continue(idx, Len(articles))
    /\ UNCHANGED <<GROQ_API_KEY, pc, requests, results, articles, error,
                   processed_articles, perspectives, processed_sources,
                   calls, posts, combined_summary,
                   extracted_perspectives, ret, arg, out>>

\* text = extract_article(url); if not text: continue
SkipExtraction ==
    /\ InLoop
    /\ SourceName(articles[idx]) \notin processed_sources
    /\ \E t \in ExtractResults :
          /\ Falsy(t[1])
          /\ calls' = Append(calls, Call("extract_article", idx, t[1], t[2]))
    /\ idx' = Continue(idx, Len(articles))
    /\ UNCHANGED <<GROQ_API_KEY, pc, requests, results, articles, error,
                   processed_articles, perspectives, processed_sources,
                   posts, combined_summary,
                   extracted_perspectives, ret, arg, out>>

\* mutant of SkipSummarization: the source is marked as seen before the
\* candidate is known to be accepted
SkipSummarization_marks ==
    /\ InLoop
    /\ SourceName(articles[idx]) \notin processed_sources
    /\ \E t \in ExtractResults, s \in SummaryResults(GROQ_API_KEY) :
          /\ ~Falsy(t[1])
          /\ Falsy(s[1])
          /\ calls' = calls \o
                 <<Call("extract_article", idx, t[1], t[2]),
                   Call("summarize_text", idx, s[1], s[2])>>
    /\ posts' = posts + PostCount(GROQ_API_KEY)
    /\ idx' = Continue(idx, Len(articles))
    /\ processed_sources' =
           AddSource(processed_sources, SourceName(articles[idx]))
    /\ UNCHANGED <<GROQ_API_KEY, pc, requests, results, articles, error,
                   processed_articles, perspectives,
                   combined_summary, extracted_perspectives, ret, arg, out>>

\* summary = summarize_text(text); if not summary: continue
SkipSummarization ==
    /\ InLoop
    /\ SourceName(articles[idx]) \notin processed_sources
    /\ \E t \in ExtractResults, s \in SummaryResults(GROQ_API_KEY) :
          /\ ~Falsy(t[1])
          /\ Falsy(s[1])
          /\ calls' = calls \o
                 <<Call("extract_article", idx, t[1], t[2]),
                   Call("summarize_text", idx, s[1], s[2])>>
    /\ posts' = posts + PostCount(GROQ_API_KEY)
    /\ idx' = Continue(idx, Len(articles))
    /\ UNCHANGED <<GROQ_API_KEY, pc, requests, results, articles, error,
                   processed_articles, perspectives, processed_sources,
                   combined_summary, extracted_perspectives, ret, arg, out>>

\* mutant of IsFeaturedSlot: the comparison is off by one
IsFeaturedSlot_inclusive(n) == n <= FeaturedCap

\* the branch taken at "if len(processed_articles) < 4"
IsFeaturedSlot(n) == n < FeaturedCap

\* the candidate is accepted as a featured article, with its credibility
AcceptFeatured ==
    /\ InLoop
    /\ SourceName(articles[idx]) \notin processed_sources
    /\ IsFeaturedSlot(Len(processed_articles))
    /\ \E t \in ExtractResults, s \in SummaryResults(GROQ_API_KEY),
          c \in {<<rate_credibility(GROQ_API_KEY, h),
                   GroqFailed(GROQ_API_KEY, h)>> : h \in Https(CredContents)} :
          /\ ~Falsy(t[1])
          /\ ~Falsy(s[1])
          /\ processed_articles' = Append(processed_articles,
                 [source |-> SourceName(articles[idx]),
                  url |-> articles[idx].link,
                  info |-> t[1],
                  summary |-> Strip(s[1]),
                  credibility |-> c[1]])
          /\ calls' = calls \o
                 <<Call("extract_article", idx, t[1], t[2]),
                   Call("summarize_text", idx, s[1], s[2]),
                   Call("rate_credibility", idx, c[1], c[2])>>
    /\ processed_sources' =
           AddSource(processed_sources, SourceName(articles[idx]))
    /\ posts' = posts + 2 * PostCount(GROQ_API_KEY)
    /\ idx' = idx + 1
    /\ UNCHANGED <<GROQ_API_KEY, pc, requests, results, articles, error,
                   perspectives, combined_summary, extracted_perspectives,
                   ret, arg, out>>

\* mutant of AcceptPooled: the credibility of a pooled source is asked for
AcceptPooled_rated ==
    /\ InLoop
    /\ SourceName(articles[idx]) \notin processed_sources
    /\ ~IsFeaturedSlot(Len(processed_articles))
    /\ \E t \in ExtractResults, s \in SummaryResults(GROQ_API_KEY) :
          /\ ~Falsy(t[1])
          /\ ~Falsy(s[1])
          /\ perspectives' = Append(perspectives,
                 [source |-> SourceName(articles[idx]),
                  url |-> articles[idx].link,
                  summary |-> Strip(s[1])])
          /\ calls' = calls \o
                 <<Call("extract_article", idx, t[1], t[2]),
                   Call("summarize_text", idx, s[1], s[2]),
                   Call("rate_credibility", idx, NA, TRUE)>>
    /\ processed_sources' =
           AddSource(processed_sources, SourceName(articles[idx]))
    /\ posts' = posts + PostCount(GROQ_API_KEY)
    /\ idx' = idx + 1
    /\ UNCHANGED <<GROQ_API_KEY, pc, requests, results, articles, error,
                   processed_articles, combined_summary,
                   extracted_perspectives, ret, arg, out>>

\* the candidate is accepted into the perspective pool
AcceptPooled ==
    /\ InLoop
    /\ SourceName(articles[idx]) \notin processed_sources
    /\ ~IsFeaturedSlot(Len(processed_articles))
    /\ \E t \in ExtractResults, s \in SummaryResults(GROQ_API_KEY) :
          /\ ~Falsy(t[1])
          /\ ~Falsy(s[1])
          /\ perspectives' = Append(perspectives,
                 [source |-> SourceName(articles[idx]),
                  url |-> articles[idx].link,
                  summary |-> Strip(s[1])])
          /\ calls' = calls \o
                 <<Call("extract_article", idx, t[1], t[2]),
                   Call("summarize_text", idx, s[1], s[2])>>
    /\ processed_sources' =
           AddSource(processed_sources, SourceName(articles[idx]))
    /\ posts' = posts + PostCount(GROQ_API_KEY)
    /\ idx' = idx + 1
    /\ UNCHANGED <<GROQ_API_KEY, pc, requests, results, articles, error,
                   processed_articles, combined_summary,
                   extracted_perspectives, ret, arg, out>>

LoopOver == pc = "loop" /\ idx > Len(articles)

\* if not processed_articles: return ... "Could not process any ..."
NoneProcessed ==
    /\ LoopOver
    /\ NotProcessed(processed_articles)
    /\ ret' = ErrorReturn("Could not process any of the fetched articles.")
    /\ pc' = "done"
    /\ UNCHANGED <<GROQ_API_KEY, requests, results, articles, error, idx,
                   processed_articles, perspectives, processed_sources,
                   calls, posts, combined_summary,
                   extracted_perspectives, arg, out>>

\* combined_summary = summarize_all_articles(processed_articles)
SynthesizeAll ==
    /\ LoopOver
    /\ ~NotProcessed(processed_articles)
    /\ \E s \in {<<summarize_all_articles(GROQ_API_KEY, processed_articles, h),
                   GroqFailed(GROQ_API_KEY, h)>> :
                    h \in Https(CombinedContents)} :
          /\ combined_summary' = s[1]
          /\ calls' = Append(calls,
                 Call("summarize_all_articles", 0, s[1], s[2]))
    /\ posts' = posts + (IF processed_articles = <<>> THEN 0
                         ELSE PostCount(GROQ_API_KEY))
    /\ pc' = "perspectives"
    /\ UNCHANGED <<GROQ_API_KEY, requests, results, articles, error, idx,
                   processed_articles, perspectives, processed_sources,
                   extracted_perspectives, ret, arg, out>>

\* extract_perspectives_from_articles(processed_articles + perspectives)
ExtractPerspectives ==
    /\ pc = "perspectives"
    /\ \E p \in {<<extract_perspectives_from_articles(
                       GROQ_API_KEY, processed_articles \o perspectives, h),
                   GroqFailed(GROQ_API_KEY, h)>> :
                    h \in Https(PerspContents)} :
          /\ extracted_perspectives' = p[1]
          /\ calls' = Append(calls,
                 Call("extract_perspectives_from_articles", 0,
                      ListResult, p[2]))
    /\ posts' = posts + (IF processed_articles \o perspectives = <<>> THEN 0
                         ELSE PostCount(GROQ_API_KEY))
    /\ pc' = "followups"
    /\ UNCHANGED <<GROQ_API_KEY, requests, results, articles, error, idx,
                   processed_articles, perspectives, processed_sources,
                   combined_summary, ret, arg, out>>

\* followups = generate_followup_questions(combined_summary, ...); return
GenerateFollowups ==
    /\ pc = "followups"
    /\ \E f \in {<<generate_followup_questions(
                       GROQ_API_KEY, combined_summary, NQuestions, h),
                   GroqFailed(GROQ_API_KEY, h)>> :
                    h \in Https(FollowContents)} :
          /\ ret' = [articles |-> PyList(processed_articles),
                     summary |-> combined_summary,
                     followups |-> f[1],
                     perspectives |-> extracted_perspectives,
                     error |-> NoError]
          /\ calls' = Append(calls,
                 Call("generate_followup_questions", 0, ListResult,
                      Falsy(combined_summary) \/ f[2]))
    /\ posts' = posts + (IF Falsy(combined_summary) THEN 0
                         ELSE PostCount(GROQ_API_KEY))
    /\ pc' = "done"
    /\ UNCHANGED <<GROQ_API_KEY, requests, results, articles, error, idx,
                   processed_articles, perspectives, processed_sources,
                   combined_summary, extracted_perspectives, arg, out>>

Next ==
    \/ SearchRestricted
    \/ SearchFallback
    \/ CheckFetched
    \/ SkipDuplicate
    \/ SkipExtraction
    \/ SkipSummarization
    \/ AcceptFeatured
    \/ AcceptPooled
    \/ NoneProcessed
    \/ SynthesizeAll
    \/ ExtractPerspectives
    \/ GenerateFollowups

Spec == Init /\ [][Next]_vars

\* -------------------------------------------- the text functions on their own
\* all strings over an alphabet up to a length
Strings(alphabet, n) == UNION {[1..k -> alphabet] : k \in 0..n}

\* characters of the responses given to rate_credibility: digits, a blank
\* and a character that is neither
CredAlphabet == {"0", "1", "9", " ", "x"}

InitCred ==
    /\ GROQ_API_KEY \in BOOLEAN
    /\ pc = "rate_credibility"
    /\ InitRun
    /\ arg \in HttpOutcomes(Strings(CredAlphabet, MaxRawLen))
    /\ out = <<>>

\* one call of rate_credibility with the outcome arg of its request
CallRateCredibility ==
    /\ pc = "rate_credibility"
    /\ out' = rate_credibility(GROQ_API_KEY, arg)
    /\ pc' = "returned"
    /\ UNCHANGED <<GROQ_API_KEY, requests, results, articles, error, idx,
                   processed_articles, perspectives, processed_sources,
                   calls, posts, combined_summary, extracted_perspectives,
                   ret, arg>>

SpecCred == InitCred /\ [][CallRateCredibility]_vars

\* characters of the responses given to extract_perspectives_from_articles
JsonAlphabet == {"[", "]", "{", "}", "1", "x", " "}

PerspArticle(u) == [source |-> 1, url |-> u, summary |-> <<"s">>]

\* the article lists the function is applied to: with and without URLs
PerspArticleLists ==
    {<<PerspArticle(Url(1))>>,
     <<PerspArticle(Url(1)), PerspArticle(Url(2))>>,
     <<PerspArticle(None), PerspArticle(Url(2))>>,
     <<PerspArticle(<<>>)>>}

InitPersp ==
    /\ GROQ_API_KEY \in BOOLEAN
    /\ pc = "extract_perspectives_from_articles"
    /\ InitRun
    /\ arg \in [arts : PerspArticleLists,
                h : HttpOutcomes(Strings(JsonAlphabet, MaxRawLen))]
    /\ out = <<>>

\* one call of extract_perspectives_from_articles
CallExtractPerspectives ==
    /\ pc = "extract_perspectives_from_articles"
    /\ out' = extract_perspectives_from_articles(GROQ_API_KEY, arg.arts, arg.h)
    /\ pc' = "returned"
    /\ UNCHANGED <<GROQ_API_KEY, requests, results, articles, error, idx,
                   processed_articles, perspectives, processed_sources,
                   calls, posts, combined_summary, extracted_perspectives,
                   ret, arg>>

SpecPersp == InitPersp /\ [][CallExtractPerspectives]_vars

\* ------------------------------------- two invocations over a fixed mock layer
\* A fixed search, extraction and text-generation layer answers a call by
\* its arguments alone. The search part is fixed from the start; the rest
\* is fixed by the answers the first invocation got: arg keeps them when
\* the second invocation begins.
\*   search     the response to each of the two queries
\*   log        the collaborator calls of the first invocation
\*   articles, featured, pool, combined, extracted
\*              the values the first invocation's calls were made with
\*   first      the tuple the first invocation returned
\* The mocked provider knows three lists: one candidate; a full page of
\* candidates of different sources; a full page whose second candidate
\* has the source of the first.
MockLists ==
    {l \in ProviderLists :
        \/ Len(l) = 1
        \/ /\ Len(l) = NumResults
           /\ \A k \in 3..Len(l) : l[k].source = l[k - 1].source + 1
           /\ l[2].source \in {1, 2}}

MockResponses == {r \in SearchResponses : r.kind = "results" => r.news \in MockLists}

\* the response to the original query matters only when the provider has
\* nothing for the restricted one
SecondResponses(r1) ==
    IF r1.kind \in {"empty", "error"} THEN MockResponses ELSE {r1}

MockSearches ==
    UNION {{[refined_query |-> r1, query |-> r2] : r2 \in SecondResponses(r1)} :
              r1 \in MockResponses}

InitTwice ==
    /\ GROQ_API_KEY \in BOOLEAN
    /\ pc = "fetch_top_news"
    /\ InitRun
    /\ arg \in {[run |-> 1, search |-> m, log |-> <<>>, articles |-> <<>>,
                 featured |-> <<>>, pool |-> <<>>, combined |-> None,
                 extracted |-> <<>>, first |-> NoRet] : m \in MockSearches}
    /\ out = <<>>

\* the argument a call of the loop was made with, in a run over the
\* candidate list arts: the candidate's URL for extract_article, the text
\* of the page at that URL for summarize_text, the candidate's source name
\* for rate_credibility
CallArg(arts, c) ==
    IF c.fn = "rate_credibility" THEN arts[c.idx].source ELSE arts[c.idx].link

SameAnswer(c, d) == c.res = d.res /\ c.failed = d.failed

\* the call c, made over the candidate list arts, is answered as the calls
\* of log, made over the candidate list logArts, were
AnsweredAs(c, arts, log, logArts) ==
    \A k \in 1..Len(log) :
        (log[k].idx > 0 /\ log[k].fn = c.fn
            /\ CallArg(logArts, log[k]) = CallArg(arts, c))
        => SameAnswer(c, log[k])

\* the layer answers the calls of this step as a fixed layer does: a search
\* by its query, a call of the loop as every earlier call with the same
\* argument in this invocation and in the first one, a call after the loop
\* as the first invocation's call if the argument is the same
Mocked ==
    /\ pc' \in {"fallback", "fetched"} =>
          results' = arg.search[requests'[Len(requests')].q]
    /\ \A k \in (Len(calls) + 1)..Len(calls') :
          calls'[k].idx > 0 =>
              /\ AnsweredAs(calls'[k], articles, calls, articles)
              /\ AnsweredAs(calls'[k], articles, arg.log, arg.articles)
    /\ (arg.run = 2 /\ pc = "loop" /\ pc' = "perspectives"
            /\ processed_articles = arg.featured)
          => combined_summary' = arg.combined
    /\ (arg.run = 2 /\ pc = "perspectives"
            /\ processed_articles \o perspectives = arg.featured \o arg.pool)
          => extracted_perspectives' = arg.extracted
    /\ (arg.run = 2 /\ pc = "followups" /\ arg.first.error = NoError
            /\ combined_summary = arg.combined)
          => ret'.followups = arg.first.followups

Snapshot ==
    [run |-> 2, search |-> arg.search, log |-> calls, articles |-> articles,
     featured |-> processed_articles, pool |-> perspectives,
     combined |-> combined_summary, extracted |-> extracted_perspectives,
     first |-> ret]

\* mutant of Reinvoke: the set of seen sources outlives the invocation
Reinvoke_leak ==
    /\ pc = "done"
    /\ arg.run = 1
    /\ arg' = Snapshot
    /\ pc' = "fetch_top_news"
    /\ requests' = <<>>
    /\ results' = NoResults
    /\ articles' = <<>>
    /\ error' = NoError
    /\ idx' = 0
    /\ processed_articles' = <<>>
    /\ perspectives' = <<>>
    /\ calls' = <<>>
    /\ posts' = 0
    /\ combined_summary' = None
    /\ extracted_perspectives' = <<>>
    /\ ret' = NoRet
    /\ UNCHANGED <<GROQ_API_KEY, processed_sources, out>>

\* the second invocation with the same query and context, run afresh: its
\* locals start as the first invocation's did
Reinvoke ==
    /\ pc = "done"
    /\ arg.run = 1
    /\ arg' = Snapshot
    /\ pc' = "fetch_top_news"
    /\ requests' = <<>>
    /\ results' = NoResults
    /\ articles' = <<>>
    /\ error' = NoError
    /\ idx' = 0
    /\ processed_articles' = <<>>
    /\ perspectives' = <<>>
    /\ processed_sources' = {}
    /\ calls' = <<>>
    /\ posts' = 0
    /\ combined_summary' = None
    /\ extracted_perspectives' = <<>>
    /\ ret' = NoRet
    /\ UNCHANGED <<GROQ_API_KEY, out>>

\* the second invocation answered by st.cache_data: the stored tuple is
\* returned and the body does not run
CachedReinvoke ==
    /\ pc = "done"
    /\ arg.run = 1
    /\ arg' = Snapshot
    /\ UNCHANGED <<GROQ_API_KEY, pc, requests, results, articles, error, idx,
                   processed_articles, perspectives, processed_sources,
                   calls, posts, combined_summary, extracted_perspectives,
                   ret, out>>

NextTwice ==
    \/ SearchRestricted /\ Mocked
    \/ SearchFallback /\ Mocked
    \/ CheckFetched /\ Mocked
    \/ SkipDuplicate /\ Mocked
    \/ SkipExtraction /\ Mocked
    \/ SkipSummarization /\ Mocked
    \/ AcceptFeatured /\ Mocked
    \/ AcceptPooled /\ Mocked
    \/ NoneProcessed /\ Mocked
    \/ SynthesizeAll /\ Mocked
    \/ ExtractPerspectives /\ Mocked
    \/ GenerateFollowups /\ Mocked
    \/ Reinvoke
    \/ CachedReinvoke

SpecTwice == InitTwice /\ [][NextTwice]_vars

\* ------------------------------------ every operation, called on its own
\* characters of the responses: a blank and a character that is kept
PlainContents == Strings({" ", "x"}, MaxRawLen)

\* responses to extract_event_location: the letters of "n/a" in both cases
LocationContents == Strings({"n", "/", "A", " "}, MaxRawLen)

\* responses to generate_followup_questions: a digit, a blank, the bullet
\* U+2022, a newline and a character that is kept
QuestionContents == Strings({"1", " ", "U+2022", "q", "\n"}, MaxRawLen)

Question == <<"W", "h", "y", "?">>

\* The calls: the operation, its input (a text, a combined summary or a
\* context in x, an article list in arts), the number of questions asked
\* for, and the outcome h of the request if one is sent
OpCalls ==
    {[op |-> o, x |-> <<"t">>, arts |-> <<>>, n |-> 0, h |-> h] :
        o \in {"summarize_text", "rate_credibility", "extract_keywords",
               "describe_image"},
        h \in HttpOutcomes(PlainContents)}
    \cup {[op |-> "extract_event_location", x |-> <<"t">>, arts |-> <<>>,
           n |-> 0, h |-> h] :
        h \in HttpOutcomes(LocationContents)}
    \cup {[op |-> o, x |-> <<>>, arts |-> arts, n |-> 0, h |-> h] :
        o \in {"summarize_all_articles", "extract_perspectives_from_articles"},
        arts \in {<<>>, <<PerspArticle(Url(1))>>},
        h \in HttpOutcomes(PlainContents)}
    \cup {[op |-> "generate_followup_questions", x |-> cs, arts |-> <<>>,
           n |-> n, h |-> h] :
        cs \in {None, <<>>, <<"c">>},
        n \in {1, 2, NQuestions},
        h \in HttpOutcomes(QuestionContents)}
    \cup {[op |-> "answer_followup", x |-> context, arts |-> <<>>,
           n |-> 0, h |-> h] :
        context \in {None, <<>>, <<"c">>},
        h \in HttpOutcomes(PlainContents)}

\* a run of the pipeline, or one call of one operation
InitOps ==
    /\ GROQ_API_KEY \in BOOLEAN
    /\ InitRun
    /\ out = <<>>
    /\ \/ pc = "fetch_top_news" /\ arg = <<>>
       \/ pc = "call" /\ arg \in OpCalls

\* requests.post is reached unless the operation returned before it
Posts(early) == IF early THEN 0 ELSE PostCount(GROQ_API_KEY)

OpCall(op, result, early) ==
    /\ pc = "call"
    /\ arg.op = op
    /\ out' = result
    /\ posts' = posts + Posts(early)
    /\ pc' = "returned"
    /\ UNCHANGED <<GROQ_API_KEY, requests, results, articles, error, idx,
                   processed_articles, perspectives, processed_sources,
                   calls, combined_summary, extracted_perspectives,
                   ret, arg>>

OpSummarizeText ==
    OpCall("summarize_text", summarize_text(GROQ_API_KEY, arg.h),
           ~GROQ_API_KEY)

OpRateCredibility ==
    OpCall("rate_credibility", rate_credibility(GROQ_API_KEY, arg.h),
           ~GROQ_API_KEY)

OpSummarizeAll ==
    OpCall("summarize_all_articles",
           summarize_all_articles(GROQ_API_KEY, arg.arts, arg.h),
           arg.arts = <<>>)

OpGenerateFollowups ==
    OpCall("generate_followup_questions",
           generate_followup_questions(GROQ_API_KEY, arg.x, arg.n, arg.h),
           Falsy(arg.x))

OpExtractPerspectives ==
    OpCall("extract_perspectives_from_articles",
           extract_perspectives_from_articles(GROQ_API_KEY, arg.arts, arg.h),
           ~GROQ_API_KEY \/ arg.arts = <<>>)

OpAnswerFollowup ==
    OpCall("answer_followup",
           answer_followup(GROQ_API_KEY, Question, arg.x, arg.h),
           ~GROQ_API_KEY)

OpExtractKeywords ==
    OpCall("extract_keywords", extract_keywords(GROQ_API_KEY, arg.h),
           ~GROQ_API_KEY)

OpExtractEventLocation ==
    OpCall("extract_event_location",
           extract_event_location(GROQ_API_KEY, arg.h),
           ~GROQ_API_KEY)

OpDescribeImage ==
    OpCall("describe_image", describe_image(GROQ_API_KEY, arg.h),
           ~GROQ_API_KEY)

NextOps ==
    \/ Next
    \/ OpSummarizeText
    \/ OpRateCredibility
    \/ OpSummarizeAll
    \/ OpGenerateFollowups
    \/ OpExtractPerspectives
    \/ OpAnswerFollowup
    \/ OpExtractKeywords
    \/ OpExtractEventLocation
    \/ OpDescribeImage

SpecOps == InitOps /\ [][NextOps]_vars

\* --------------------------------------------------------- the HTTP endpoints
\* The requests: POST /process (app_fastapi.py), POST /analyze with a plain
\* query or with a URL, and POST /analyze-file with a media file, a PDF, a
\* Word document or any other file (main.py)
Requests ==
    {[endpoint |-> "/process", input |-> "query"]}
        \cup {[endpoint |-> "/analyze", input |-> i] : i \in {"query", "url"}}
        \cup {[endpoint |-> "/analyze-file", input |-> i] :
                 i \in {"media", "pdf", "docx", "other"}}

InitHost ==
    /\ GROQ_API_KEY \in BOOLEAN
    /\ InitRun
    /\ arg \in Requests
    /\ pc = IF arg.endpoint = "/process" THEN "fetch_top_news" ELSE "request"
    /\ out = <<>>

\* a response: the status code, the detail of an HTTPException, and the
\* value returned as the body of a successful response
Response(status, detail, result) ==
    [status |-> status, detail |-> detail, result |-> result]

\* an exception that no handler catches: the framework answers 500
Unhandled == Response(500, <<"Internal Server Error">>, NoRet)

\* what the handler does with a text before it starts the run: it fails
\* with the unhandled AttributeError of text.strip() (api_clients.py:103)
\* when there is a key and no text, else it calls summarize_text and
\* extract_keywords and goes on to the run with whatever they return
Keywords(text) ==
    IF GROQ_API_KEY /\ text = None
    THEN /\ out' = Unhandled
         /\ pc' = "responded"
         /\ UNCHANGED posts
    ELSE /\ pc' = "fetch_top_news"
         /\ posts' = posts + 2 * Posts(~GROQ_API_KEY)
         /\ UNCHANGED out

\* analyze_text up to its call of run_full_pipeline
AnalyzeTextQuery ==
    /\ pc = "request"
    /\ arg.endpoint = "/analyze"
    /\ IF arg.input = "url"
       THEN \E d \in DownloadOutcomes : Keywords(extract_article(d))
       ELSE /\ pc' = "fetch_top_news"
            /\ UNCHANGED <<posts, out>>
    /\ UNCHANGED <<GROQ_API_KEY, requests, results, articles, error, idx,
                   processed_articles, perspectives, processed_sources,
                   calls, combined_summary, extracted_perspectives,
                   ret, arg>>

\* analyze_file up to its call of run_full_pipeline: the text of the file
\* is there or not; a document without text is refused with status 400
AnalyzeFileKeywords ==
    /\ pc = "request"
    /\ arg.endpoint = "/analyze-file"
    /\ \E text \in {None, <<>>, <<"t">>} :
          IF arg.input = "other"
          THEN /\ pc' = "fetch_top_news"
               /\ UNCHANGED <<posts, out>>
          ELSE IF arg.input \in {"pdf", "docx"} /\ Falsy(text)
          THEN /\ out' = Response(400, <<"Could not extract text.">>, NoRet)
               /\ pc' = "responded"
               /\ UNCHANGED posts
          ELSE Keywords(text)
    /\ UNCHANGED <<GROQ_API_KEY, requests, results, articles, error, idx,
                   processed_articles, perspectives, processed_sources,
                   calls, combined_summary, extracted_perspectives,
                   ret, arg>>

Respond(endpoint, response) ==
    /\ pc = "done"
    /\ arg.endpoint = endpoint
    /\ out' = response
    /\ pc' = "responded"
    /\ UNCHANGED <<GROQ_API_KEY, requests, results, articles, error, idx,
                   processed_articles, perspectives, processed_sources,
                   calls, posts, combined_summary, extracted_perspectives,
                   ret, arg>>

\* mutant of ProcessQuery: the tuple is returned whatever its error
ProcessQuery_returns == Respond("/process", Response(200, <<>>, ret))

\* process_query after the run: "if error: raise HTTPException(500, ...)",
\* which the handler's own "except Exception" raises again with status 500
ProcessQuery ==
    Respond("/process",
            IF TruthyError(ret.error)
            THEN Response(500, <<"500: ", ret.error>>, NoRet)
            ELSE Response(200, <<>>, ret))

\* analyze_text after the run: "return result"
AnalyzeText == Respond("/analyze", Response(200, <<>>, ret))

\* analyze_file after the run: "return result"
AnalyzeFile == Respond("/analyze-file", Response(200, <<>>, ret))

NextHost ==
    \/ Next
    \/ AnalyzeTextQuery
    \/ AnalyzeFileKeywords
    \/ ProcessQuery
    \/ AnalyzeText
    \/ AnalyzeFile

SpecHost == InitHost /\ [][NextHost]_vars

\* ------------------------------------------------------------------ claims
Range(s) == {s[k] : k \in 1..Len(s)}

Min(a, b) == IF a < b THEN a ELSE b

\* a collaborator returned nothing
Blank(v) == v = None \/ v = <<>>

\* the run is past fetch_top_news
PastFetch == pc \in {"loop", "perspectives", "followups", "done"}

\* the loop has gone through the whole list
PastLoop == pc \in {"perspectives", "followups", "done"} /\ articles # <<>>
                /\ error = NoError

\* positions of the accepted candidates, in the order of their acceptance:
\* those whose text was extracted and summarized
AcceptedCalls ==
    SelectSeq(calls, LAMBDA c : c.fn = "summarize_text" /\ ~Blank(c.res))

Accepted == [j \in 1..Len(AcceptedCalls) |-> AcceptedCalls[j].idx]

FeaturedUrls ==
    [j \in 1..Len(processed_articles) |-> processed_articles[j].url]

PooledUrls == [j \in 1..Len(perspectives) |-> perspectives[j].url]

FailedCalls(fn) == {c \in Range(calls) : c.fn = fn /\ c.failed}

\* C1: the featured list never holds more than 4 articles, and no two
\* articles of the featured list and the perspective pool together have
\* the same source name.
Thm_C1 ==
    LET all == processed_articles \o perspectives
        acc == Accepted
    IN
    /\ Len(processed_articles) <= FeaturedCap
    /\ \A j, k \in 1..Len(all) : j # k => all[j].source # all[k].source
    /\ \A j, k \in 1..Len(acc) :
          j # k => articles[acc[j]].source # articles[acc[k]].source
    /\ (pc = "done" /\ ~ret.articles.isNone) =>
          Len(ret.articles.items) <= FeaturedCap

Wit_C1 ==
    /\ pc = "done"
    /\ Len(processed_articles) = FeaturedCap
    /\ LET urls == Range(FeaturedUrls) IN
       \E j, k \in 1..Len(articles) :
          /\ j < k
          /\ articles[j].source = articles[k].source
          /\ articles[j].link \in urls

\* C2: when fetch_top_news reports an error or returns no article, the run
\* returns at once with that error (or "No articles found.") and empty
\* collections, and no collaborator is called and nothing is posted.
Thm_C2 ==
    (PastFetch /\ (error # NoError \/ articles = <<>>)) =>
        /\ pc = "done"
        /\ calls = <<>>
        /\ posts = 0
        /\ ret.articles.isNone
        /\ ret.summary = None
        /\ ret.followups = <<>>
        /\ ret.perspectives = <<>>
        /\ ret.error \notin {NoError, ""}
        /\ (error \notin {NoError, ""} => ret.error = error)
        /\ processed_articles = <<>> /\ perspectives = <<>>

Wit_C2 ==
    /\ pc = "done"
    /\ error = "Invalid API key."
    /\ ret.error = "Invalid API key."

\* C3: when no candidate was accepted after the whole list was gone
\* through, the run returns a terminal error with empty collections and the
\* synthesis, perspective and follow-up functions are never called; and a
\* run that returns no error returns between 1 and 4 featured articles.
Thm_C3 ==
    /\ (pc = "done" /\ articles # <<>> /\ error = NoError
            /\ processed_articles = <<>>) =>
          /\ idx = Len(articles) + 1
          /\ ret.error \notin {NoError, ""}
          /\ ret.articles.isNone
          /\ ret.summary = None
          /\ ret.followups = <<>>
          /\ ret.perspectives = <<>>
          /\ \A c \in Range(calls) :
                c.fn \in {"extract_article", "summarize_text"}
    /\ pc \in {"perspectives", "followups"} => processed_articles # <<>>
    /\ (pc = "done" /\ ret.error = NoError) =>
          /\ ~ret.articles.isNone
          /\ Len(ret.articles.items) \in 1..FeaturedCap

Wit_C3 ==
    /\ pc = "done"
    /\ ret.error = "Could not process any of the fetched articles."
    /\ \E c \in Range(calls) : c.fn = "extract_article" /\ Blank(c.res)
    /\ \E c \in Range(calls) : c.fn = "summarize_text" /\ Blank(c.res)

Thm_C5 ==
    LET acc == Range(Accepted)
        called == {c.idx : c \in Range(calls)}
    IN
    /\ PastFetch =>
          \A k \in 1..Min(idx - 1, Len(articles)) :
              (\E j \in acc :
                    j < k /\ articles[j].source = articles[k].source)
                 => k \notin called
    /\ (PastLoop /\ \A c \in Range(calls) :
                       c.fn \in {"extract_article", "summarize_text"}
                          => ~Blank(c.res)) =>
          /\ Cardinality(acc) =
                 Cardinality({articles[k].source : k \in 1..Len(articles)})
          /\ \A j \in acc :
                \A i \in 1..(j - 1) : articles[i].source # articles[j].source

Wit_C5 ==
    /\ pc = "done"
    /\ \A c \in Range(calls) :
          c.fn \in {"extract_article", "summarize_text"} => ~Blank(c.res)
    /\ LET acc == Range(Accepted) IN
       /\ \E j, k \in 1..Len(articles) :
             /\ j < k
             /\ articles[j].source = articles[k].source
             /\ articles[j].link # articles[k].link
             /\ j \in acc
       /\ Cardinality(acc) < Len(articles)

\* C6: a candidate whose extraction or summarization fails is skipped and
\* the loop goes on: it is in neither list, it takes no featured slot, every
\* candidate of the list is still examined, and summarize_text is never
\* called for a candidate whose extraction returned nothing.
Thm_C6 ==
    LET acc == Range(Accepted)
        kept == Range(FeaturedUrls) \cup Range(PooledUrls)
        extracted == {c.idx : c \in {x \in Range(calls) :
                                        x.fn = "extract_article"}}
        extractedOk == {c.idx : c \in {x \in Range(calls) :
                              x.fn = "extract_article" /\ ~Blank(x.res)}}
    IN
    /\ \A c \in Range(calls) :
          (c.fn \in {"extract_article", "summarize_text"} /\ Blank(c.res)) =>
              articles[c.idx].link \notin kept
    /\ \A c \in Range(calls) :
          c.fn = "summarize_text" => c.idx \in extractedOk
    /\ Len(processed_articles) = Min(FeaturedCap, Cardinality(acc))
    /\ PastLoop =>
          /\ idx = Len(articles) + 1
          /\ \A k \in 1..Len(articles) :
                \/ k \in extracted
                \/ \E j \in acc :
                      j < k /\ articles[j].source = articles[k].source
    /\ (pc = "done" /\ articles # <<>> /\ error = NoError) =>
          idx = Len(articles) + 1

Wit_C6 ==
    /\ pc = "done"
    /\ ret.error = NoError
    /\ LET acc == Range(Accepted) IN
       \E c1, c2 \in Range(calls) :
          /\ c1.fn = "extract_article" /\ Blank(c1.res)
          /\ c2.fn = "summarize_text" /\ Blank(c2.res)
          /\ \E j \in acc : j > c1.idx /\ j > c2.idx

\* C7: a failed text-generation call after the per-article summarization
\* gives the documented fallback and the run goes on: a failed
\* rate_credibility gives "N/A" and the article is featured with it, a
\* failed summarize_all_articles gives a null combined summary, a failed or
\* skipped generate_followup_questions gives an empty list, and the run
\* returns the featured articles with no error.
Thm_C7 ==
    /\ \A c \in FailedCalls("rate_credibility") :
          /\ c.res = NA
          /\ \E j \in 1..Len(processed_articles) :
                /\ processed_articles[j].url = articles[c.idx].link
                /\ processed_articles[j].credibility = NA
    /\ FailedCalls("summarize_all_articles") # {} => combined_summary = None
    /\ (pc = "done" /\ ret.error = NoError) =>
          /\ ret.summary = combined_summary
          /\ (Blank(ret.summary)
                \/ FailedCalls("generate_followup_questions") # {})
                => ret.followups = <<>>
    /\ (pc = "done" /\ \E c \in Range(calls) :
                          /\ c.failed
                          /\ c.fn \notin {"extract_article", "summarize_text"}) =>
          /\ ret.error = NoError
          /\ ret.articles = PyList(processed_articles)
          /\ processed_articles # <<>>

Wit_C7 ==
    /\ pc = "done"
    /\ ret.error = NoError
    /\ FailedCalls("rate_credibility") # {}
    /\ FailedCalls("summarize_all_articles") # {}
    /\ FailedCalls("generate_followup_questions") # {}
    /\ \E j \in 1..Len(ret.articles.items) :
          ret.articles.items[j].credibility = NA

\* C10: fetch_top_news issues the restricted query first and the original
\* query once more exactly when the restricted one gave no results; it
\* issues at most two searches, always returns, returns at most num_results
\* articles in provider order with no error on success, and an empty list
\* with an error message on a provider error or an exception.
Thm_C10 ==
    /\ Len(requests) <= 2
    /\ Len(requests) >= 1 => requests[1].q = "refined_query"
    /\ Len(requests) = 2 =>
          /\ requests[2].q = "query"
          /\ requests[1].kind \in {"empty", "error"}
    /\ pc = "fallback" =>
          Len(requests) = 1 /\ requests[1].kind \in {"empty", "error"}
    /\ pc = "fetched" =>
          /\ Len(requests) \in 1..2
          /\ Len(requests) = 1 => requests[1].kind \in {"results", "raise"}
          /\ results.kind = "results" =>
                /\ error = NoError
                /\ Len(articles) = Min(NumResults, Len(results.news))
                /\ \A k \in 1..Len(articles) : articles[k] = results.news[k]
          /\ results.kind # "results" =>
                /\ articles = <<>>
                /\ error # NoError
                /\ error = results.msg

Wit_C10 ==
    /\ pc = "fetched"
    /\ Len(requests) = 2
    /\ results.kind = "results"
    /\ Len(results.news) > NumResults
    /\ Len(articles) = NumResults

\* the single fallback record, listing the URL of every article that has one
IsFallback(res, arts) ==
    /\ Len(res) = 1
    /\ res[1].perspective = Analysis
    /\ \A k \in 1..Len(arts) :
          ~Blank(arts[k].url) => arts[k].url \in Range(res[1].articles)

IsArrayOfObjects(v) ==
    v.t = "arr" /\ \A k \in 1..Len(v.elems) : v.elems[k].t = "obj"

\* C8 as stated: for every response text that is not JSON, the result is
\* the single fallback record "Analysis" with the URL of every input
\* article.
Orig_C8 ==
    (pc = "returned" /\ GROQ_API_KEY /\ arg.h.kind = "content"
        /\ json_loads(arg.h.content).t = "err") =>
        IsFallback(out, arg.arts)

\* C8, amended: the result is the single fallback record "Analysis" with
\* the URL of every input article that has one whenever the text the
\* function parses (the span from the first '[' to the last ']' of the
\* stripped response, the whole stripped response when a bracket is
\* missing) is not valid JSON, is a number, or is an array with an element
\* that is not an object.
Thm_C8 ==
    (pc = "returned" /\ GROQ_API_KEY /\ arg.h.kind = "content") =>
        LET v == json_loads(BracketSpan(Strip(arg.h.content))) IN
        (v.t \in {"err", "num"} \/ (v.t = "arr" /\ ~IsArrayOfObjects(v))) =>
            IsFallback(out, arg.arts)

Wit_C8 ==
    /\ pc = "returned"
    /\ GROQ_API_KEY
    /\ arg.h.kind = "content"
    /\ arg.h.content = <<"x", "[", "x", "]">>
    /\ Len(arg.arts) = 2
    /\ Len(out) = 1
    /\ out[1].articles = <<Url(1), Url(2)>>

AllDigits(s) == \A k \in 1..Len(s) : s[k] \in Digits

DigitValue(c) ==
    CASE c = "0" -> 0 [] c = "1" -> 1 [] c = "2" -> 2 [] c = "3" -> 3
      [] c = "4" -> 4 [] c = "5" -> 5 [] c = "6" -> 6 [] c = "7" -> 7
      [] c = "8" -> 8 [] c = "9" -> 9

RECURSIVE DecimalValue(_)
DecimalValue(s) ==
    IF s = <<>> THEN 0
    ELSE 10 * DecimalValue(SubSeq(s, 1, Len(s) - 1)) + DigitValue(s[Len(s)])

\* C9 as stated: the result is a digit string for a number from 0 to 100,
\* or "N/A".
Orig_C9 ==
    pc = "returned" =>
        \/ out = NA
        \/ out # <<>> /\ AllDigits(out) /\ DecimalValue(out) \in 0..100

\* C9, amended: the result is "N/A" on every failure; otherwise it is the
\* digits of the stripped response, in order (a non-empty digit string,
\* which need not denote a number up to 100), when the response has a
\* digit, and the stripped response itself when it has none.
Thm_C9 ==
    pc = "returned" =>
        IF GroqFailed(GROQ_API_KEY, arg) THEN out = NA
        ELSE LET raw == arg.content IN
             IF \E k \in 1..Len(raw) : raw[k] \in Digits
             THEN /\ out # <<>>
                  /\ AllDigits(out)
                  /\ Len(out) = Cardinality({k \in 1..Len(raw) : raw[k] \in Digits})
             ELSE /\ out = Strip(raw)
                  /\ \A k \in 1..Len(out) : out[k] \notin Digits

Wit_C9 ==
    /\ pc = "returned"
    /\ GROQ_API_KEY
    /\ arg.kind = "content"
    /\ arg.content = <<" ", "x">>
    /\ out = <<"x">>

\* C11: over a fixed search, extraction and text-generation layer, the
\* second invocation of run_full_pipeline with the same query and context
\* returns the tuple the first one returned: the same featured articles in
\* the same order, combined summary, follow-up questions, perspectives and
\* error.
Thm_C11 ==
    (arg.run = 2 /\ pc = "done") =>
        /\ ret.articles = arg.first.articles
        /\ ret.summary = arg.first.summary
        /\ ret.followups = arg.first.followups
        /\ ret.perspectives = arg.first.perspectives
        /\ ret.error = arg.first.error

\* a second invocation that ran afresh returned four featured articles it
\* built itself, after a first one that skipped a candidate whose page
\* could not be extracted
Wit_C11 ==
    /\ arg.run = 2
    /\ pc = "done"
    /\ calls # <<>>
    /\ ret.error = NoError
    /\ Len(ret.articles.items) = FeaturedCap
    /\ \E c \in Range(arg.log) : c.fn = "extract_article" /\ c.failed


\* the value an operation returns when its request fails
FailureValue(op) ==
    CASE op \in {"summarize_text", "summarize_all_articles",
                 "extract_keywords", "extract_event_location",
                 "describe_image"} -> None
      [] op = "rate_credibility" -> NA
      [] op \in {"generate_followup_questions",
                 "extract_perspectives_from_articles"} -> <<>>
      [] op = "answer_followup" -> AnswerKeyNotSet

\* the state is one of a call of a single operation, not of a run
OpState == pc \in {"call", "returned"}

OpReturned == pc = "returned"

\* without a key, a run that fetched a candidate made no request and ended
\* with the error of no featured article
NoKeyRun ==
    (~GROQ_API_KEY /\ ~OpState) =>
        /\ posts = 0
        /\ \A c \in Range(calls) : c.fn = "summarize_text" => c.res = None
        /\ processed_articles = <<>>
        /\ (pc = "done" /\ articles # <<>>) =>
               ret = ErrorReturn("Could not process any of the fetched articles.")

\* C12 as stated: without the credential no operation of the family sends
\* a request, each returns its failure value (null, "N/A", the empty list,
\* or the "key not set" answer), and a run with a candidate ends with the
\* error of no featured article.
Orig_C12 ==
    /\ NoKeyRun
    /\ (~GROQ_API_KEY /\ OpState) =>
          /\ posts = 0
          /\ OpReturned => out = FailureValue(arg.op)

\* C12, what holds: without the credential no operation sends a request,
\* every operation but describe_image returns its failure value,
\* describe_image returns an error text, and a run with a candidate ends
\* with the error of no featured article.
Thm_C12 ==
    /\ NoKeyRun
    /\ (~GROQ_API_KEY /\ OpState) =>
          /\ posts = 0
          /\ OpReturned =>
                IF arg.op = "describe_image" THEN out = ImageKeyNotSet
                ELSE out = FailureValue(arg.op)

\* describe_image was called without the credential and has returned
Wit_C12 ==
    /\ ~GROQ_API_KEY
    /\ OpReturned
    /\ arg.op = "describe_image"
    /\ posts = 0


\* a Python value that is a string: None is the one value of the model
\* that is not
IsString(v) == v # None /\ \A k \in 1..Len(v) : v[k] # "None"

\* C13: answer_followup returns a string for every context (null, empty or
\* a text) and every outcome of the request (no credential, transport
\* error, non-success status, malformed body, success): the stripped answer
\* on success, one of its three literals otherwise, and the "key not set"
\* literal when no credential is configured.
Thm_C13 ==
    (OpReturned /\ arg.op = "answer_followup") =>
        /\ IsString(out)
        /\ ~GROQ_API_KEY => out = AnswerKeyNotSet
        /\ (GROQ_API_KEY /\ arg.h.kind # "content") =>
               out \in {AnswerNotGenerated, AnswerNotParsed}
        /\ (GROQ_API_KEY /\ arg.h.kind = "content") =>
               out = Strip(arg.h.content)

\* answer_followup("Why?", context=None) has returned with a credential
\* configured and a response without choices
Wit_C13 ==
    /\ OpReturned
    /\ arg.op = "answer_followup"
    /\ arg.x = None
    /\ GROQ_API_KEY
    /\ arg.h.kind = "nochoices"
    /\ out = AnswerNotParsed


\* the characters a list item starts with: the bullet, the dash, the
\* digits and the period of a numbering, and blanks
ListMarkers == {"U+2022", "-", ".", " "} \cup Digits

\* the lines that are not blank, each without its leading list markers
RECURSIVE LeadingStripped(_)
LeadingStripped(lines) ==
    IF lines = <<>> THEN <<>>
    ELSE IF Strip(Head(lines)) # <<>>
         THEN <<LStripChars(Head(lines), ListMarkers)>>
                  \o LeadingStripped(Tail(lines))
         ELSE LeadingStripped(Tail(lines))

FollowupsAnswered ==
    /\ OpReturned
    /\ arg.op = "generate_followup_questions"
    /\ GROQ_API_KEY
    /\ ~Falsy(arg.x)
    /\ arg.h.kind = "content"

\* C14 as stated: the questions are the lines of the model output, each
\* without its leading list-marker characters and otherwise unchanged, cut
\* to the first N.
Orig_C14 ==
    FollowupsAnswered =>
        out = Take(LeadingStripped(SplitLines(arg.h.content)), arg.n)

\* C14, what holds: at most N questions are returned, none on a failure,
\* and no question contains a newline or begins or ends with one of the
\* characters the code strips.
Thm_C14 ==
    (OpReturned /\ arg.op = "generate_followup_questions") =>
        /\ Len(out) <= arg.n
        /\ ~FollowupsAnswered => out = <<>>
        /\ \A k \in 1..Len(out) :
              /\ Find(out[k], "\n") = 0
              /\ out[k] # <<>> =>
                    /\ Head(out[k]) \notin MarkerChars
                    /\ out[k][Len(out[k])] \notin MarkerChars

\* the model answered with more lines than the questions asked for
Wit_C14 ==
    /\ FollowupsAnswered
    /\ Len(out) = arg.n
    /\ Len(StripMarkers(SplitLines(arg.h.content))) > arg.n


\* extract_perspectives_from_articles has returned its fallback record
FallbackReturned ==
    /\ pc = "returned"
    /\ GROQ_API_KEY
    /\ arg.h.kind = "content"
    /\ Len(out) = 1
    /\ out[1].perspective = Analysis

\* C15 as stated: the fallback record's summary is the model's response
\* text (without the blanks around it), also when the response contains
\* '[' and ']'.
Orig_C15 ==
    FallbackReturned => out[1].summary = Strip(arg.h.content)

\* C15, what holds: the fallback record's summary is the text that was
\* parsed, which is the response text without the blanks around it only
\* when the response lacks a '[' or a ']'.
Thm_C15 ==
    FallbackReturned =>
        /\ out[1].summary = BracketSpan(Strip(arg.h.content))
        /\ (Find(arg.h.content, "[") = 0 \/ Find(arg.h.content, "]") = 0)
               => out[1].summary = Strip(arg.h.content)

\* the fallback record was returned for a response with text before its
\* '[' and a ']' after it
Wit_C15 ==
    /\ FallbackReturned
    /\ Find(Strip(arg.h.content), "[") > 1
    /\ RFind(arg.h.content, "]") > Find(arg.h.content, "[")
    /\ out[1].summary # Strip(arg.h.content)


CredCalls == SelectSeq(calls, LAMBDA c : c.fn = "rate_credibility")

\* C16: rate_credibility is called once for each featured article, in
\* order, right after that candidate's summarization succeeded, and its
\* result is the article's credibility; it is called for no other
\* candidate, so at most 4 times in a run.
Thm_C16 ==
    /\ Len(CredCalls) = Len(processed_articles)
    /\ Len(CredCalls) <= FeaturedCap
    /\ \A j \in 1..Len(CredCalls) :
          /\ articles[CredCalls[j].idx].link = processed_articles[j].url
          /\ CredCalls[j].res = processed_articles[j].credibility
          /\ articles[CredCalls[j].idx].link \notin Range(PooledUrls)
    /\ \A k \in 1..Len(calls) :
          calls[k].fn = "rate_credibility" =>
              /\ k > 1
              /\ calls[k - 1].fn = "summarize_text"
              /\ calls[k - 1].idx = calls[k].idx
              /\ ~Blank(calls[k - 1].res)

\* a run ended with four featured articles and a pooled one
Wit_C16 ==
    /\ pc = "done"
    /\ Len(processed_articles) = FeaturedCap
    /\ perspectives # <<>>
    /\ Len(CredCalls) = FeaturedCap

\* the sources of the featured and of the pooled articles
AcceptedSources ==
    {processed_articles[j].source : j \in 1..Len(processed_articles)}
        \cup {perspectives[j].source : j \in 1..Len(perspectives)}

\* the candidates given up because extraction or summarization failed
FailedSkips ==
    {c.idx : c \in {x \in Range(calls) :
        x.fn \in {"extract_article", "summarize_text"} /\ Blank(x.res)}}

\* the seen-set holds the sources of the accepted articles and no other,
\* and every candidate passed without a call to extract_article has the
\* source of an accepted candidate before it
SeenIsAccepted ==
    /\ processed_sources = AcceptedSources
    /\ PastFetch =>
          \A k \in 1..Min(idx - 1, Len(articles)) :
              \/ \E c \in Range(calls) : c.fn = "extract_article" /\ c.idx = k
              \/ \E j \in Range(Accepted) :
                    j < k /\ articles[j].source = articles[k].source

\* a step changes the seen-set only by adding the source of the candidate
\* it accepts, and a step that gives a candidate up changes neither the
\* seen-set nor the two lists
SeenFrame ==
    /\ processed_sources' # processed_sources =>
          /\ InLoop
          /\ processed_sources' =
                 processed_sources \cup {SourceName(articles[idx])}
          /\ Len(processed_articles') + Len(perspectives')
                 = Len(processed_articles) + Len(perspectives) + 1
          /\ SourceName(articles[idx]) \in AcceptedSources'
    /\ (InLoop /\ Len(calls') > Len(calls)
            /\ calls'[Len(calls')].fn \in {"extract_article", "summarize_text"}
            /\ Blank(calls'[Len(calls')].res)) =>
          UNCHANGED <<processed_sources, processed_articles, perspectives>>

\* C18: a source name enters the seen-set only when a candidate of that
\* source is accepted as featured or pooled; a candidate given up because
\* its extraction or summarization failed leaves the seen-set, the featured
\* list and the pool as they were, so a later candidate of the same source
\* is still extracted and summarized and can be accepted.
Thm_C18 == []SeenIsAccepted /\ [][SeenFrame]_vars

\* a candidate was accepted after an earlier candidate of the same source
\* had been given up
Wit_C18 ==
    \E k \in FailedSkips, j \in Range(Accepted) :
        j > k /\ articles[j].source = articles[k].source


\* the endpoint has answered a request whose run ended with an error
RespondedError ==
    /\ pc = "responded"
    /\ ret.error \notin {NoError, "<running>"}

\* C17 as stated: every endpoint answers a run that ended with a terminal
\* error with an error status code.
Orig_C17 == RespondedError => out.status >= 400

\* C17, what holds: POST /process answers a run that ended with an error
\* with status 500 and the error in the detail; POST /analyze and POST
\* /analyze-file answer it with status 200 and the tuple as the body.
Thm_C17 ==
    RespondedError =>
        IF arg.endpoint = "/process"
        THEN out.status = 500 /\ out.detail = <<"500: ", ret.error>>
        ELSE out.status = 200 /\ out.result = ret

\* POST /analyze has answered a run that found no article
Wit_C17 ==
    /\ RespondedError
    /\ arg.endpoint = "/analyze"
    /\ ret.error = "No articles found."
    /\ out.status = 200


====
